---- MODULE Spec2Model ----
(***************************************************************************)
(* SwipeSafe (src/app.py): the scoring pipeline of the /analyze handler.   *)
(*                                                                         *)
(* Text is a tuple of one-character strings, so that lower-casing and      *)
(* Python's substring test ("k in label", "c in bio_lower") are computed.  *)
(* Probabilities and scores are integers in hundredths (0.75 is 75), the   *)
(* heuristic risk is the integer the code keeps (risk / 100.0 is then the  *)
(* same number of hundredths).                                             *)
(***************************************************************************)
EXTENDS Integers, Sequences, FiniteSets, TLC

VARIABLES
    HF_TOKEN,      \* whether the HF_TOKEN environment variable is set
    files,         \* the uploaded batch: a sequence of images (0: bytes that
                   \* are no image; k > 0: the decodable image number k)
    bio,           \* the bio form field
    pc,            \* "loop" | "done" | "aborted" : position in analyze
    idx,           \* number of images of files[:5] already processed
    signals,       \* analyze's signals list
    ai_probs,      \* analyze's ai_probs list
    phashes,       \* analyze's phashes list
    backend_calls, \* per processed image: number of requests.post calls made
    backend_failed,\* per processed image: the backend gave no usable answer
    ai_results,    \* per processed image: the value hf_classify returned
    c_hits,        \* analyze's c_hits list
    risk,          \* analyze's risk
    top_ai,        \* analyze's top_ai
    verdict,       \* analyze's verdict ("" until it is computed)
    cl_outcome,    \* hf_classify alone: what the backend does for the call
    cl_pc,         \* hf_classify alone: "call" | "returned"
    cl_ret,        \* hf_classify alone: what the call gave its caller
    vl_a, vl_b,    \* verdict_label alone: two AI probabilities
    vl_risk,       \* verdict_label alone: the heuristic risk
    vl_pc,         \* verdict_label alone: "call" | "returned"
    vl_la, vl_lb   \* verdict_label alone: the two labels returned

vars == <<HF_TOKEN, files, bio, pc, idx, signals, ai_probs, phashes,
          backend_calls, backend_failed, ai_results, c_hits, risk, top_ai,
          verdict, cl_outcome, cl_pc, cl_ret, vl_a, vl_b, vl_risk, vl_pc,
          vl_la, vl_lb>>

analyze_vars == <<HF_TOKEN, files, bio, pc, idx, signals, ai_probs, phashes,
                  backend_calls, backend_failed, ai_results, c_hits, risk,
                  top_ai, verdict>>
classify_vars == <<cl_outcome, cl_pc, cl_ret>>
verdict_vars == <<vl_a, vl_b, vl_risk, vl_pc, vl_la, vl_lb>>

-----------------------------------------------------------------------------
(* Bounds of the model *)

MaxEntries == 2     \* entries in one list of a backend response
MaxFiles == 2       \* uploaded images, requests with any bio
MaxLong == 6        \* uploaded images, requests with an empty bio
MaxBioParts == 2    \* text fragments a bio is made of
MaxRiskIn == 30     \* heuristic_risk values given to verdict_label alone
MaxProbStep == 22   \* AI probabilities given to verdict_label alone, in 0.05s

-----------------------------------------------------------------------------
(* Python values *)

None == [some |-> FALSE, v |-> 0]
Some(x) == [some |-> TRUE, v |-> x]

Max2(a, b) == IF b > a THEN b ELSE a
Min2(a, b) == IF b < a THEN b ELSE a

RECURSIVE MaxOfSeq(_)
MaxOfSeq(s) ==
    IF Len(s) = 1 THEN s[1] ELSE Max2(MaxOfSeq(SubSeq(s, 1, Len(s) - 1)), s[Len(s)])

LowerChar(c) ==
    CASE c = "A" -> "a" [] c = "B" -> "b" [] c = "C" -> "c" [] c = "D" -> "d"
      [] c = "E" -> "e" [] c = "F" -> "f" [] c = "G" -> "g" [] c = "H" -> "h"
      [] c = "I" -> "i" [] c = "J" -> "j" [] c = "K" -> "k" [] c = "L" -> "l"
      [] c = "M" -> "m" [] c = "N" -> "n" [] c = "O" -> "o" [] c = "P" -> "p"
      [] c = "Q" -> "q" [] c = "R" -> "r" [] c = "S" -> "s" [] c = "T" -> "t"
      [] c = "U" -> "u" [] c = "V" -> "v" [] c = "W" -> "w" [] c = "X" -> "x"
      [] c = "Y" -> "y" [] c = "Z" -> "z" [] OTHER -> c

\* str.lower()
lower(s) == [i \in 1..Len(s) |-> LowerChar(s[i])]

\* needle in hay
In(needle, hay) ==
    \E i \in 0..(Len(hay) - Len(needle)) :
        \A j \in 1..Len(needle) : hay[i + j] = needle[j]

-----------------------------------------------------------------------------
(* hf_classify *)

KEYWORDS == <<
    <<"f","a","k","e">>,
    <<"a","i">>,
    <<"s","y","n","t","h","e","t","i","c">>,
    <<"g","e","n","e","r","a","t","e","d">>,
    <<"r","e","n","d","e","r">>,
    <<"c","g","i">>,
    <<"a","r","t">> >>

\* any(k in label for k in ('fake','ai',...))
LabelMatches(label) == \E k \in 1..Len(KEYWORDS) : In(KEYWORDS[k], label)

(* A JSON value of the response.  An object is
     [t |-> "dict", hasLabel, label, hasScore, score, numeric, others]
   where others are the values under the keys other than label and score;
   "list" carries items; "scalar" is a string, a number or null.          *)
Entry(hasLabel, label, hasScore, score, numeric) ==
    [t |-> "dict", hasLabel |-> hasLabel, label |-> label, hasScore |-> hasScore,
     score |-> score, numeric |-> numeric, others |-> <<>>]
Scalar == [t |-> "scalar"]
List(items) == [t |-> "list", items |-> items]

\* str(r.get("label","")).lower()
GetLabel(r) == IF r.hasLabel THEN lower(r.label) ELSE <<>>

\* float(r.get("score",0.0)) : [exc, v]
GetScore(r) ==
    IF ~r.hasScore THEN [exc |-> FALSE, v |-> 0]
    ELSE IF ~r.numeric THEN [exc |-> TRUE, v |-> 0]
    ELSE [exc |-> FALSE, v |-> r.score]

\* ScanList adding the contributing scores up (best += score)
RECURSIVE ScanList_sum(_, _)
ScanList_sum(items, best) ==
    IF items = <<>> THEN [exc |-> FALSE, best |-> best]
    ELSE LET r == Head(items) IN
         IF r.t # "dict" THEN [exc |-> TRUE, best |-> best]
         ELSE LET sc == GetScore(r) IN
              IF sc.exc THEN [exc |-> TRUE, best |-> best]
              ELSE ScanList_sum(Tail(items),
                                IF LabelMatches(GetLabel(r)) THEN best + sc.v ELSE best)

\* lines 51-55: the loop over a top-level list; r.get raises on a non-dict
RECURSIVE ScanList(_, _)
ScanList(items, best) ==
    IF items = <<>> THEN [exc |-> FALSE, best |-> best]
    ELSE LET r == Head(items) IN
         IF r.t # "dict" THEN [exc |-> TRUE, best |-> best]
         ELSE LET sc == GetScore(r) IN
              IF sc.exc THEN [exc |-> TRUE, best |-> best]
              ELSE ScanList(Tail(items),
                            IF LabelMatches(GetLabel(r)) THEN Max2(best, sc.v) ELSE best)

\* lines 66-71: the loop over one nested list; non-dict items are skipped
RECURSIVE ScanNested(_, _)
ScanNested(items, best) ==
    IF items = <<>> THEN [exc |-> FALSE, best |-> best]
    ELSE LET r == Head(items) IN
         IF r.t # "dict" THEN ScanNested(Tail(items), best)
         ELSE LET sc == GetScore(r) IN
              IF sc.exc THEN [exc |-> TRUE, best |-> best]
              ELSE ScanNested(Tail(items),
                              IF LabelMatches(GetLabel(r)) THEN Max2(best, sc.v) ELSE best)

\* lines 64-71: for v in data.values()
RECURSIVE ScanValues(_, _)
ScanValues(values, best) ==
    IF values = <<>> THEN [exc |-> FALSE, best |-> best]
    ELSE LET v == Head(values) IN
         IF v.t # "list" THEN ScanValues(Tail(values), best)
         ELSE LET n == ScanNested(v.items, best) IN
              IF n.exc THEN n ELSE ScanValues(Tail(values), n.best)

\* lines 57-71: the dict forms
ScanDict(data, best) ==
    LET label == GetLabel(data)
        sc == GetScore(data)
    IN  IF label # <<>> /\ sc.exc THEN [exc |-> TRUE, best |-> best]
        ELSE ScanValues(data.others,
                        IF label # <<>> /\ LabelMatches(label)
                        THEN Max2(best, sc.v) ELSE best)

\* lines 48-73: best over the parsed response
BestOf(data) ==
    IF data.t = "list" THEN ScanList(data.items, 0)
    ELSE IF data.t = "dict" THEN ScanDict(data, 0)
    ELSE [exc |-> FALSE, best |-> 0]

\* what can go wrong at the backend (lines 43-45): no connection, no answer
\* within the timeout, a status that is not 2xx, a body that is not JSON
BACKEND_FAILURES == {"transport_error", "timeout", "http_error", "bad_json"}

\* and before the call (lines 30-42): the face crop or the PNG encoding raises
FAILURES == BACKEND_FAILURES \cup {"preprocess_error"}

\* lines 30-73, the body of the try: [exc, best, calls]
TryBody(outcome) ==
    IF outcome.kind = "preprocess_error" THEN [exc |-> TRUE, best |-> 0, calls |-> 0]
    ELSE IF outcome.kind \in FAILURES THEN [exc |-> TRUE, best |-> 0, calls |-> 1]
    ELSE LET b == BestOf(outcome.data) IN [exc |-> b.exc, best |-> b.best, calls |-> 1]

\* hf_classify with "return 0.0" in the except clause
hf_classify_zero_on_error(token, outcome) ==
    IF ~token THEN [raised |-> FALSE, ret |-> None, calls |-> 0]
    ELSE LET b == TryBody(outcome) IN
         IF b.exc THEN [raised |-> FALSE, ret |-> Some(0), calls |-> b.calls]
         ELSE [raised |-> FALSE, ret |-> Some(b.best), calls |-> b.calls]

\* lines 25-76: [raised, ret, calls]
hf_classify(token, outcome) ==
    IF ~token THEN [raised |-> FALSE, ret |-> None, calls |-> 0]
    ELSE LET b == TryBody(outcome) IN
         IF b.exc THEN [raised |-> FALSE, ret |-> None, calls |-> b.calls]
         ELSE [raised |-> FALSE, ret |-> Some(b.best), calls |-> b.calls]

-----------------------------------------------------------------------------
(* verdict_label *)

ONE == 100              \* 1.0
HEURISTIC_CAP == 15     \* 0.15
DEFINITELY_CUT == 75    \* 0.75
POTENTIALLY_CUT == 45   \* 0.45
RISK_FLOOR == 20

DEFINITELY == "Definitely Made with AI"
POTENTIALLY == "Potentially Made with AI"
NOT_MADE == "Not Made with AI"

VerdictOf(p, heuristic_risk) ==
    IF p >= DEFINITELY_CUT THEN DEFINITELY
    ELSE IF p >= POTENTIALLY_CUT \/ heuristic_risk >= RISK_FLOOR THEN POTENTIALLY
    ELSE NOT_MADE

\* verdict_label taking a missing probability for 1.0
verdict_label_none_is_one(ai_prob, heuristic_risk) ==
    LET base == IF ai_prob # None THEN ai_prob.v ELSE ONE
    IN  VerdictOf(Min2(ONE, base + Min2(HEURISTIC_CAP, heuristic_risk)), heuristic_risk)

\* verdict_label with the risk floor on the first test instead of the second
verdict_label_floor_top(ai_prob, heuristic_risk) ==
    LET base == IF ai_prob # None THEN ai_prob.v ELSE 0
        p == Min2(ONE, base + Min2(HEURISTIC_CAP, heuristic_risk))
    IN  IF p >= DEFINITELY_CUT \/ heuristic_risk >= RISK_FLOOR THEN DEFINITELY
        ELSE IF p >= POTENTIALLY_CUT THEN POTENTIALLY
        ELSE NOT_MADE

\* verdict_label without the 0.15 cap on the heuristic share
verdict_label_uncapped(ai_prob, heuristic_risk) ==
    LET base == IF ai_prob # None THEN ai_prob.v ELSE 0
    IN  VerdictOf(Min2(ONE, base + heuristic_risk), heuristic_risk)

\* lines 78-86
verdict_label(ai_prob, heuristic_risk) ==
    LET base == IF ai_prob # None THEN ai_prob.v ELSE 0
        p == Min2(ONE, base + Min2(HEURISTIC_CAP, heuristic_risk))
    IN  IF p >= DEFINITELY_CUT THEN DEFINITELY
        ELSE IF p >= POTENTIALLY_CUT \/ heuristic_risk >= RISK_FLOOR THEN POTENTIALLY
        ELSE NOT_MADE

-----------------------------------------------------------------------------
(* analyze: signals *)

AiSignal(conf) == [kind |-> "ai", conf |-> conf, shown |-> <<>>]
DupSignal == [kind |-> "dup", conf |-> 0, shown |-> <<>>]
ClicheSignal(shown) == [kind |-> "cliche", conf |-> 0, shown |-> shown]

DIGITS == <<"0","1","2","3","4","5","6","7","8","9">>

\* the decimal digits of n >= 0
RECURSIVE Dec(_)
Dec(n) == IF n < 10 THEN <<DIGITS[n + 1]>> ELSE Dec(n \div 10) \o <<DIGITS[(n % 10) + 1]>>

\* ", ".join(parts)
RECURSIVE Join(_)
Join(parts) ==
    IF parts = <<>> THEN <<>>
    ELSE IF Len(parts) = 1 THEN parts[1]
    ELSE parts[1] \o <<",", " ">> \o Join(Tail(parts))

\* the string appended to signals (lines 123, 128, 134); conf is in hundredths,
\* so f"{ai_prob*100:.1f}" is its digits followed by ".0"
SignalText(s) ==
    IF s.kind = "ai" THEN
        <<"A","I"," ","i","n","d","i","c","a","t","o","r"," ","i","n"," ","o","n","e"," ",
          "i","m","a","g","e"," ","(","c","o","n","f","i","d","e","n","c","e"," ">>
        \o Dec(s.conf) \o <<".", "0">> \o <<"%",")",".">>
    ELSE IF s.kind = "dup" THEN
        <<"M","u","l","t","i","p","l","e"," ","u","p","l","o","a","d","e","d"," ",
          "p","h","o","t","o","s"," ","a","r","e"," ",
          "n","e","a","r","-","d","u","p","l","i","c","a","t","e","s",".">>
    ELSE
        <<"B","i","o"," ","u","s","e","s"," ","c","o","m","m","o","n"," ",
          "c","l","i","c","h","e","s",":"," ">> \o Join(s.shown)

NEAR_DUPLICATES == <<"n","e","a","r","-","d","u","p","l","i","c","a","t","e","s">>

-----------------------------------------------------------------------------
(* analyze: the bio *)

cliches == <<
    <<"l","o","v","e"," ","t","o"," ","t","r","a","v","e","l">>,
    <<"a","d","v","e","n","t","u","r","e">>,
    <<"f","o","o","d","i","e">>,
    <<"s","p","o","n","t","a","n","e","o","u","s">>,
    <<"w","o","r","k"," ","h","a","r","d"," ","p","l","a","y"," ","h","a","r","d">>,
    <<"d","o","w","n"," ","t","o"," ","e","a","r","t","h">> >>

DISPLAY_CAP == 4
DUP_RISK == 12
CLICHE_CAP == 12
PER_HIT == 4

\* line 132: [c for c in cliches if c in bio_lower]
RECURSIVE HitsFrom(_, _)
HitsFrom(k, bio_lower) ==
    IF k > Len(cliches) THEN <<>>
    ELSE (IF In(cliches[k], bio_lower) THEN <<cliches[k]>> ELSE <<>>)
         \o HitsFrom(k + 1, bio_lower)

\* lines 131-132
ClicheHits(b) == HitsFrom(1, lower(b))

\* the signal listing every hit
Shown_all(hits) == hits

\* line 134: c_hits[:4]
Shown(hits) == SubSeq(hits, 1, Min2(DISPLAY_CAP, Len(hits)))

\* the cliche contribution without its ceiling
ClicheRisk_uncapped(hits) == IF hits # <<>> THEN PER_HIT * Len(hits) ELSE 0

\* line 138
ClicheRisk(hits) == IF hits # <<>> THEN Min2(CLICHE_CAP, PER_HIT * Len(hits)) ELSE 0

\* line 137: any("near-duplicates" in s.lower() for s in signals)
AnyNearDuplicates(sigs) ==
    \E i \in 1..Len(sigs) : In(NEAR_DUPLICATES, lower(SignalText(sigs[i])))

\* lines 136-138
Risk(sigs, hits) ==
    (IF AnyNearDuplicates(sigs) THEN DUP_RISK ELSE 0) + ClicheRisk(hits)

-----------------------------------------------------------------------------
(* analyze: the images *)

BATCH_CAP == 5
SIGNAL_CUT == 55        \* 0.55

\* Image.open(...).convert("RGB") succeeds
Decodable(img) == img # 0

\* imagehash.phash(img): a function of the content that is not injective
\* (images 1 and 9 are different bytes with one fingerprint)
phash(img) == img % 8

LabelReal == <<"r","e","a","l">>
LabelFake == <<"F","a","k","e">>
LabelAiGenerated == <<"a","i","_","g","e","n","e","r","a","t","e","d">>

Pair(label, score) == Entry(TRUE, label, TRUE, score, TRUE)

\* what the model answers for an image, when the call succeeds: a function of
\* the image, in each of the three shapes
Response(img) ==
    CASE img % 4 = 1 -> List(<<Pair(LabelReal, 100)>>)
      [] img % 4 = 2 -> [Entry(FALSE, <<>>, FALSE, 0, TRUE) EXCEPT
                            !.others = <<List(<<Pair(LabelFake, 60), Pair(LabelReal, 40)>>)>>]
      [] img % 4 = 3 -> Pair(LabelAiGenerated, 91)
      [] img % 4 = 0 -> List(<<Pair(LabelReal, 41), Pair(LabelFake, 59)>>)

Failure(kind) == [kind |-> kind, data |-> Scalar]
Answer(data) == [kind |-> "ok", data |-> data]

\* what one call to the backend may do for an image
BackendOutcomes(img) == {Failure(k) : k \in BACKEND_FAILURES} \cup {Answer(Response(img))}

\* files[:5]
Taken == SubSeq(files, 1, Min2(BATCH_CAP, Len(files)))

\* lines 116-125, one iteration of the loop over a decodable image
ProcessImage ==
    /\ pc = "loop"
    /\ idx < Len(Taken)
    /\ Decodable(Taken[idx + 1])
    /\ \E o \in BackendOutcomes(Taken[idx + 1]) :
       \E r \in {hf_classify(HF_TOKEN, o)} :
         LET img == Taken[idx + 1]
         IN  IF r.raised
             THEN /\ pc' = "aborted"
                  /\ backend_calls' = Append(backend_calls, r.calls)
                  /\ backend_failed' = Append(backend_failed, TRUE)
                  /\ UNCHANGED <<idx, signals, ai_probs, phashes, ai_results>>
             ELSE /\ ai_probs' = IF r.ret # None THEN Append(ai_probs, r.ret.v) ELSE ai_probs
                  /\ signals' = IF r.ret # None /\ r.ret.v >= SIGNAL_CUT
                                THEN Append(signals, AiSignal(r.ret.v)) ELSE signals
                  /\ phashes' = Append(phashes, phash(img))
                  /\ backend_calls' = Append(backend_calls, r.calls)
                  /\ backend_failed' = Append(backend_failed, ~HF_TOKEN \/ o.kind \in FAILURES)
                  /\ ai_results' = Append(ai_results, r.ret)
                  /\ idx' = idx + 1
                  /\ pc' = pc
    /\ UNCHANGED <<HF_TOKEN, files, bio, c_hits, risk, top_ai, verdict>>
    /\ UNCHANGED <<classify_vars, verdict_vars>>

\* line 117 raises on bytes that are no image: the handler ends without a response
DecodeError ==
    /\ pc = "loop"
    /\ idx < Len(Taken)
    /\ ~Decodable(Taken[idx + 1])
    /\ pc' = "aborted"
    /\ UNCHANGED <<HF_TOKEN, files, bio, idx, signals, ai_probs, phashes, backend_calls,
                   backend_failed, ai_results, c_hits, risk, top_ai, verdict>>
    /\ UNCHANGED <<classify_vars, verdict_vars>>

SetOf(s) == {s[i] : i \in 1..Len(s)}

\* the duplicate test looking at neighbours only
HasDuplicates_adjacent(hashes) == \E i \in 1..(Len(hashes) - 1) : hashes[i] = hashes[i + 1]

\* line 127: len(phashes) > 1 and len(set(phashes)) < len(phashes)
HasDuplicates(hashes) == Len(hashes) > 1 /\ Cardinality(SetOf(hashes)) < Len(hashes)

\* lines 127-141, after the loop
Aggregate ==
    /\ pc = "loop"
    /\ idx = Len(Taken)
    /\ \E hits \in {ClicheHits(bio)} :
       LET sig1 == IF HasDuplicates(phashes) THEN Append(signals, DupSignal) ELSE signals
           sig2 == IF hits # <<>> THEN Append(sig1, ClicheSignal(Shown(hits))) ELSE sig1
           rk == Risk(sig2, hits)
           top == IF ai_probs # <<>> THEN Some(MaxOfSeq(ai_probs)) ELSE None
       IN  /\ signals' = sig2
           /\ c_hits' = hits
           /\ risk' = rk
           /\ top_ai' = top
           /\ verdict' = verdict_label(top, rk)
    /\ pc' = "done"
    /\ UNCHANGED <<HF_TOKEN, files, bio, idx, ai_probs, phashes, backend_calls,
                   backend_failed, ai_results>>
    /\ UNCHANGED <<classify_vars, verdict_vars>>

-----------------------------------------------------------------------------
(* Inputs *)

SeqUpTo(S, n) == UNION {[1..k -> S] : k \in 0..n}

IMAGES == {0, 1, 2, 4, 9}

MaxIn(s) == IF s = <<>> THEN 0 ELSE MaxOfSeq(s)

\* the batches of n images in which each image is bytes that are no image, a
\* repeat of an earlier image, or the next image not yet in the batch
RECURSIVE BatchesOf(_)
BatchesOf(n) ==
    IF n = 0 THEN {<<>>}
    ELSE UNION {{Append(s, x) : x \in 0..(MaxIn(s) + 1)} : s \in BatchesOf(n - 1)}

LONG_BATCHES == UNION {BatchesOf(n) : n \in 0..MaxLong}

\* "Work hard, travel far" (no phrase), "Foodie" (1), "Love to travel,
\* ADVENTURE" (2), "foodie spontaneous WORK HARD PLAY HARD down to earth" (4)
FRAGMENTS == {
    <<"W","o","r","k"," ","h","a","r","d",","," ","t","r","a","v","e","l"," ","f","a","r">>,
    <<"F","o","o","d","i","e">>,
    <<"L","o","v","e"," ","t","o"," ","t","r","a","v","e","l",","," ",
      "A","D","V","E","N","T","U","R","E">>,
    <<"f","o","o","d","i","e"," ",
      "s","p","o","n","t","a","n","e","o","u","s"," ","W","O","R","K"," ","H","A","R","D"," ",
      "P","L","A","Y"," ","H","A","R","D"," ","d","o","w","n"," ","t","o"," ",
      "e","a","r","t","h">> }

RECURSIVE Concat(_)
Concat(parts) ==
    IF parts = <<>> THEN <<>>
    ELSE IF Len(parts) = 1 THEN parts[1]
    ELSE parts[1] \o <<" ">> \o Concat(Tail(parts))

BIOS == {Concat(parts) : parts \in SeqUpTo(FRAGMENTS, MaxBioParts)}

LABELS == {LabelReal, LabelFake, LabelAiGenerated}
SCORES == {-50, 30, 91, 150}

NoLabel == Entry(FALSE, <<>>, TRUE, 91, TRUE)
NoScore == Entry(TRUE, LabelFake, FALSE, 0, TRUE)
BadScore == Entry(TRUE, LabelReal, TRUE, 0, FALSE)

OBJECTS == {Pair(l, sc) : l \in LABELS, sc \in SCORES} \cup {NoLabel, NoScore, BadScore}
ITEMS == OBJECTS \cup {Scalar}
LISTS == {List(items) : items \in SeqUpTo(ITEMS, MaxEntries)}
ONE_ITEM_LISTS == {List(<<r>>) : r \in ITEMS}

\* the values under the other keys of an object
OTHERS ==
    {<<>>}
    \cup {<<v>> : v \in LISTS \cup {Scalar, Pair(LabelFake, 91)}}
    \cup {<<v, w>> : v \in ONE_ITEM_LISTS, w \in ONE_ITEM_LISTS}

EMPTY_OBJECT == Entry(FALSE, <<>>, FALSE, 0, TRUE)

DICTS == {[top EXCEPT !.others = o] : top \in OBJECTS \cup {EMPTY_OBJECT}, o \in OTHERS}

PAYLOADS == LISTS \cup DICTS \cup {Scalar}

OUTCOMES == {Failure(k) : k \in FAILURES} \cup {Answer(d) : d \in PAYLOADS}

VERDICT_PROBS == {None} \cup {Some(5 * k) : k \in 0..MaxProbStep}

-----------------------------------------------------------------------------
(* The single calls *)

NO_RETURN == [raised |-> FALSE, ret |-> None, calls |-> 0]

CallClassify ==
    /\ cl_pc = "call"
    /\ cl_ret' = hf_classify(HF_TOKEN, cl_outcome)
    /\ cl_pc' = "returned"
    /\ UNCHANGED <<cl_outcome, analyze_vars, verdict_vars>>

CallVerdict ==
    /\ vl_pc = "call"
    /\ vl_la' = verdict_label(vl_a, vl_risk)
    /\ vl_lb' = verdict_label(vl_b, vl_risk)
    /\ vl_pc' = "returned"
    /\ UNCHANGED <<vl_a, vl_b, vl_risk, analyze_vars, classify_vars>>

-----------------------------------------------------------------------------
(* Specifications *)

AnalyzeStart ==
    /\ idx = 0
    /\ signals = <<>>
    /\ ai_probs = <<>>
    /\ phashes = <<>>
    /\ backend_calls = <<>>
    /\ backend_failed = <<>>
    /\ ai_results = <<>>
    /\ c_hits = <<>>
    /\ risk = 0
    /\ top_ai = None
    /\ verdict = ""

ClassifyIdle == cl_outcome = Failure("timeout") /\ cl_pc = "idle" /\ cl_ret = NO_RETURN

VerdictIdle ==
    /\ vl_a = None /\ vl_b = None /\ vl_risk = 0
    /\ vl_pc = "idle" /\ vl_la = "" /\ vl_lb = ""

\* one /analyze request: up to MaxFiles images, any bio
Init ==
    /\ HF_TOKEN \in BOOLEAN
    /\ files \in SeqUpTo(IMAGES, MaxFiles)
    /\ bio \in BIOS
    /\ pc = "loop"
    /\ AnalyzeStart /\ ClassifyIdle /\ VerdictIdle

\* one /analyze request: up to MaxLong images, no bio
InitLong ==
    /\ HF_TOKEN \in BOOLEAN
    /\ files \in LONG_BATCHES
    /\ bio = <<>>
    /\ pc = "loop"
    /\ AnalyzeStart /\ ClassifyIdle /\ VerdictIdle

\* one call of hf_classify
InitClassify ==
    /\ HF_TOKEN \in BOOLEAN
    /\ files = <<>> /\ bio = <<>> /\ pc = "idle"
    /\ AnalyzeStart /\ VerdictIdle
    /\ cl_outcome \in OUTCOMES
    /\ cl_pc = "call"
    /\ cl_ret = NO_RETURN

\* verdict_label on two probabilities and one risk
InitVerdict ==
    /\ HF_TOKEN = FALSE
    /\ files = <<>> /\ bio = <<>> /\ pc = "idle"
    /\ AnalyzeStart /\ ClassifyIdle
    /\ vl_a \in VERDICT_PROBS
    /\ vl_b \in VERDICT_PROBS
    /\ vl_risk \in 0..MaxRiskIn
    /\ vl_pc = "call"
    /\ vl_la = "" /\ vl_lb = ""

Next == ProcessImage \/ DecodeError \/ Aggregate
NextClassify == CallClassify
NextVerdict == CallVerdict

Spec == Init /\ [][Next]_vars
SpecLong == InitLong /\ [][Next]_vars
SpecClassify == InitClassify /\ [][NextClassify]_vars
SpecVerdict == InitVerdict /\ [][NextVerdict]_vars

-----------------------------------------------------------------------------
(* The claims *)

SetMax(S) == CHOOSE m \in S : \A x \in S : x <= m

HasSignal(kind) == \E i \in 1..Len(signals) : signals[i].kind = kind

NoEvidence == top_ai = None \/ top_ai.v = 0

\* C1: whatever the backend does, hf_classify gives its caller None or a
\* number in [0,1], and does not raise.
C1_UnitRange ==
    cl_pc = "returned" =>
        /\ ~cl_ret.raised
        /\ cl_ret.ret = None \/ (0 <= cl_ret.ret.v /\ cl_ret.ret.v <= ONE)

\* C2: with no AI probability, or a top AI probability of 0, the verdict is
\* never the top tier, whatever the duplicate flag and the cliche hits.
C2_HeuristicsNeverTop ==
    pc = "done" /\ NoEvidence => verdict # DEFINITELY

C2_Witness ==
    /\ pc = "done" /\ top_ai = None
    /\ HasSignal("dup") /\ Len(c_hits) >= 3
    /\ verdict = POTENTIALLY

Rank(label) == CASE label = NOT_MADE -> 0 [] label = POTENTIALLY -> 1 [] label = DEFINITELY -> 2

ProbOf(a) == IF a = None THEN 0 ELSE a.v

\* C3: for a fixed heuristic risk and AI probabilities a <= b (None counting
\* as 0), the verdict for b is at the same or a higher tier than that for a.
C3_Monotonic ==
    vl_pc = "returned" /\ ProbOf(vl_a) <= ProbOf(vl_b) => Rank(vl_la) <= Rank(vl_lb)

C3_Witness ==
    /\ vl_pc = "returned" /\ vl_a = None /\ ProbOf(vl_b) > 0
    /\ vl_la = NOT_MADE /\ vl_lb = DEFINITELY

Repeat(n) == \E i \in 1..n : \E j \in (i + 1)..n : files[i] = files[j]

DuplicateFlagged == HasSignal("dup") /\ risk = DUP_RISK + ClicheRisk(c_hits)

\* C4, as claimed: in a request analyze answers, an image at two or more
\* positions of the batch, wherever they are, sets the duplicate flag: the
\* near-duplicates signal is listed and 12 is added to the risk.
C4_AnyRepeat ==
    pc = "done" /\ Repeat(Len(files)) => DuplicateFlagged

\* C4, amended: an image at two or more of the first five positions of the
\* batch sets the duplicate flag.
C4_RepeatInFirstFive ==
    pc = "done" /\ Repeat(Min2(BATCH_CAP, Len(files))) => DuplicateFlagged

C4_Witness ==
    /\ pc = "done" /\ Len(files) = 6
    /\ files[2] = files[5] /\ Cardinality(SetOf(files)) = 5
    /\ DuplicateFlagged

RECURSIVE ValuesOf(_)
ValuesOf(results) ==
    IF results = <<>> THEN <<>>
    ELSE (IF Head(results) # None THEN <<Head(results).v>> ELSE <<>>) \o ValuesOf(Tail(results))

RECURSIVE AiSignalsOf(_)
AiSignalsOf(results) ==
    IF results = <<>> THEN <<>>
    ELSE (IF Head(results) # None /\ Head(results).v >= 55
          THEN <<AiSignal(Head(results).v)>> ELSE <<>>) \o AiSignalsOf(Tail(results))

RECURSIVE OfKind(_, _)
OfKind(sigs, kind) ==
    IF sigs = <<>> THEN <<>>
    ELSE (IF Head(sigs).kind = kind THEN <<Head(sigs)>> ELSE <<>>) \o OfKind(Tail(sigs), kind)

\* C5: an image whose backend call fails is called for at most once and
\* classified None; the probabilities and the AI signals are those of the
\* other images alone; every image processed is hashed; a request ends early
\* only at bytes that are no image; and a request that ends has one verdict.
C5_FailureIsLocal ==
    /\ Len(backend_failed) = Len(backend_calls)
    /\ \A i \in 1..Len(backend_failed) :
          backend_failed[i] => backend_calls[i] <= 1 /\ ai_results[i] = None
    /\ ai_probs = ValuesOf(ai_results)
    /\ OfKind(signals, "ai") = AiSignalsOf(ai_results)
    /\ Len(ai_results) = idx /\ Len(backend_failed) = idx
    /\ phashes = [i \in 1..idx |-> phash(Taken[i])]
    /\ pc = "aborted" => ~Decodable(Taken[idx + 1])
    /\ pc = "done" => idx = Len(Taken) /\ verdict \in {NOT_MADE, POTENTIALLY, DEFINITELY}

C5_Witness ==
    /\ pc = "done" /\ HF_TOKEN /\ Len(files) >= 3
    /\ ~backend_failed[1] /\ backend_failed[2] /\ ~backend_failed[3]
    /\ backend_calls[2] = 1
    /\ ai_results[2] = None /\ ai_results[3] # None
    /\ top_ai # None /\ verdict # ""

\* C6: bytes that are no image do not end the request: the image is skipped
\* and analyze still answers.
C6_UndecodableSkipped ==
    (\E i \in 1..Len(Taken) : ~Decodable(Taken[i])) => pc # "aborted"

\* C7: c_hits are the phrases of the list found in the lower-cased bio, in
\* list order; the cliche signal shows the first 4 of them; the risk gets
\* min(12, 4 per hit) of all of them; with no hit there is no cliche signal
\* and nothing is added to the risk.
C7_ClicheHits ==
    pc = "done" =>
        LET expected == SelectSeq(cliches, LAMBDA c : In(c, lower(bio)))
            dupPart == IF HasSignal("dup") THEN 12 ELSE 0
        IN  /\ c_hits = expected
            /\ IF expected = <<>>
               THEN OfKind(signals, "cliche") = <<>> /\ risk = dupPart
               ELSE /\ OfKind(signals, "cliche") =
                          <<ClicheSignal(SubSeq(expected, 1, Min2(4, Len(expected))))>>
                    /\ risk = dupPart + Min2(12, 4 * Len(expected))

C7_Witness ==
    /\ pc = "done" /\ Len(c_hits) = 6
    /\ \E i \in 1..Len(signals) : signals[i].kind = "cliche" /\ Len(signals[i].shown) = 4
    /\ risk = 12

\* C8: with no AI probability, or a top AI probability of 0, the verdict is
\* the middle one exactly when the risk is at least 20, which is exactly when
\* the duplicate flag is set and the bio has at least 2 hits; otherwise it is
\* the lowest one.
C8_FloorForcesMiddle ==
    pc = "done" /\ NoEvidence =>
        /\ verdict = POTENTIALLY <=> risk >= 20
        /\ risk >= 20 <=> (HasSignal("dup") /\ Len(c_hits) >= 2)
        /\ verdict \in {POTENTIALLY, NOT_MADE}

C8_Witness ==
    /\ pc = "done" /\ top_ai = Some(0)
    /\ HasSignal("dup") /\ Len(c_hits) = 2
    /\ verdict = POTENTIALLY

WellFormed(r) == r.t = "dict" /\ r.hasLabel /\ r.hasScore /\ r.numeric

ListOfEntries(v) == v.t = "list" /\ \A i \in 1..Len(v.items) : WellFormed(v.items[i])

\* a list of entries; one entry; a mapping with lists of entries under its
\* keys (which may itself carry a label and a score)
AcceptedShape(data) ==
    \/ ListOfEntries(data)
    \/ /\ data.t = "dict"
       /\ WellFormed(data) \/ (~data.hasLabel /\ ~data.hasScore)
       /\ \A i \in 1..Len(data.others) : ListOfEntries(data.others[i])

EntriesOf(data) ==
    IF data.t = "list" THEN SetOf(data.items)
    ELSE (IF data.hasLabel THEN {[data EXCEPT !.others = <<>>]} ELSE {})
         \cup UNION {SetOf(data.others[i].items) : i \in 1..Len(data.others)}

MatchingScores(data) ==
    {e.score : e \in {x \in EntriesOf(data) : \E k \in SetOf(KEYWORDS) : In(k, lower(x.label))}}

Answered ==
    /\ cl_pc = "returned" /\ HF_TOKEN
    /\ cl_outcome.kind = "ok" /\ AcceptedShape(cl_outcome.data)

C10_TopTierExplained ==
    pc = "done" /\ verdict = DEFINITELY =>
        /\ top_ai # None /\ top_ai.v >= 60
        /\ HasSignal("ai")

C10_Witness ==
    /\ pc = "done" /\ verdict = DEFINITELY
    /\ top_ai = Some(60)
    /\ HasSignal("ai")

====
